---- MODULE Spec2Model ----
(***************************************************************************)
(* A model of ozelot's Yggdrasil / Mojang session code:                    *)
(*   src/src/yggdrasil.rs  create_shared_secret, authenticate,             *)
(*                         session_join, rsa_encrypt, post_sha1, sha1      *)
(*   src/src/mojang.rs     SessionJoin, SessionHasJoined, get_request,     *)
(*                         post_request                                    *)
(*                                                                         *)
(* Two specifications share the variables:                                 *)
(*   SpecDigest  the Minecraft-style rendering of a digest (sha1, after    *)
(*               the hash call), over every digest of DigestLen bytes      *)
(*               drawn from ByteSamples;                                   *)
(*   Spec        the calls a program can make on the library, each action  *)
(*               one whole call, the network and the crypto library being  *)
(*               the environment that picks the outcome.                   *)
(*                                                                         *)
(* Strings are sequences of one-character strings, byte buffers sequences  *)
(* of 0..255.                                                              *)
(***************************************************************************)
EXTENDS Integers, Sequences, FiniteSets

VARIABLES
    pc,      \* SpecDigest: "start" before sha1 has rendered the digest, "done" after
    digest,  \* SpecDigest: the bytes hash::hash returned
    ret,     \* SpecDigest: the string sha1 returned
    auth,    \* Spec: outcome of the latest authenticate call (observer's record)
    prev,    \* Spec: the request built by the latest earlier join / has-joined call
    last     \* Spec: the latest call: its arguments, what the environment answered, its result

vars == <<pc, digest, ret, auth, prev, last>>

----------------------------------------------------------------------------
(* Bounds *)

\* Bytes of a digest in the model (SHA-1 has 20; the rendering is per byte).
DigestLen == 2

\* Byte values the digests of SpecDigest are drawn from: both signs, the
\* carry cases (0x00, 0xff), leading-zero nibbles and leading-zero bytes.
ByteSamples == {0, 1, 9, 10, 15, 16, 127, 128, 129, 160, 240, 255}

Digests == [1..DigestLen -> ByteSamples]

----------------------------------------------------------------------------
(* sha1: yggdrasil.rs 166-220 *)

\* One lowercase hexadecimal digit, as "{:x}" writes it.
HexDigit(n) ==
    <<"0", "1", "2", "3", "4", "5", "6", "7",
      "8", "9", "a", "b", "c", "d", "e", "f">>[n + 1]

\* write!(&mut tmp, "{:02x}", byte)
Hex02(byte) ==
    <<HexDigit(byte \div 16), HexDigit(byte % 16)>>

\* for byte in &digest { write!(&mut tmp, "{:02x}", byte) }
RECURSIVE WriteHex(_, _)
WriteHex(bytes, i) ==
    IF i > Len(bytes) THEN <<>>
    ELSE Hex02(bytes[i]) \o WriteHex(bytes, i + 1)

\* The mutant of InvertBytes: the bytes are left as they are.
InvertBytes_Skip(bytes) ==
    bytes

\* for byte in digest.iter_mut() { *byte ^= 0xff; }
InvertBytes(bytes) ==
    [i \in 1..Len(bytes) |-> 255 - bytes[i]]

\* The mutant of AddOne: the last byte is incremented with wrap-around and
\* no carry goes to the byte before it.
AddOne_NoCarry(bytes, i) ==
    IF i = 0 THEN bytes
    ELSE [bytes EXCEPT ![i] = (bytes[i] + 1) % 256]

\* for byte in digest.iter_mut().rev(): from byte i down to the first byte,
\* a 255 becomes 0 and the loop goes on, any other byte is incremented and
\* the loop breaks.
RECURSIVE AddOne(_, _)
AddOne(bytes, i) ==
    IF i = 0 THEN bytes
    ELSE IF bytes[i] = 255 THEN AddOne([bytes EXCEPT ![i] = 0], i - 1)
    ELSE [bytes EXCEPT ![i] = bytes[i] + 1]

\* The mutant of StripLeadingZeros: every '0' is dropped, non_zero never
\* latches.
RECURSIVE StripLeadingZeros_All(_, _, _)
StripLeadingZeros_All(tmp, i, non_zero) ==
    IF i > Len(tmp) THEN <<>>
    ELSE (IF tmp[i] # "0" THEN <<tmp[i]>> ELSE <<>>)
         \o StripLeadingZeros_All(tmp, i + 1, non_zero)

\* for character in tmp.chars(): non_zero latches at the first character
\* that is not '0', and from then on every character is pushed.
RECURSIVE StripLeadingZeros(_, _, _)
StripLeadingZeros(tmp, i, non_zero) ==
    IF i > Len(tmp) THEN <<>>
    ELSE LET nz == non_zero \/ tmp[i] # "0"
         IN  (IF nz THEN <<tmp[i]>> ELSE <<>>)
             \o StripLeadingZeros(tmp, i + 1, nz)

\* sha1 from line 170 on: the rendering of the digest the hash returned.
sha1_render(d) ==
    LET negative == d[1] >= 128
        magnitude == IF negative THEN AddOne(InvertBytes(d), Len(d)) ELSE d
        tmp == WriteHex(magnitude, 1)
    IN  (IF negative THEN <<"-">> ELSE <<>>) \o StripLeadingZeros(tmp, 1, FALSE)

----------------------------------------------------------------------------
(* SpecDigest *)

NoCall == [op |-> "none"]
NoAuth == [state |-> "Unauthenticated", tokens |-> <<>>]
NoReq == [kind |-> "none", triple |-> <<>>, serverId |-> <<>>]

InitDigest ==
    /\ pc = "start"
    /\ digest \in Digests
    /\ ret = <<>>
    /\ auth = NoAuth
    /\ prev = NoReq
    /\ last = NoCall

\* sha1 renders the digest it was given.
Sha1Render ==
    /\ pc = "start"
    /\ pc' = "done"
    /\ ret' = sha1_render(digest)
    /\ UNCHANGED <<digest, auth, prev, last>>

NextDigest == Sha1Render

SpecDigest == InitDigest /\ [][NextDigest]_vars

----------------------------------------------------------------------------
(* What a rendered digest means, in arithmetic *)

RECURSIVE Pow(_, _)
Pow(b, e) == IF e = 0 THEN 1 ELSE b * Pow(b, e - 1)

\* The bytes read as a big-endian unsigned integer.
RECURSIVE Unsigned(_, _)
Unsigned(bytes, n) ==
    IF n = 0 THEN 0 ELSE Unsigned(bytes, n - 1) * 256 + bytes[n]

\* |d| for d the bytes read as a big-endian two's-complement integer.
Magnitude(bytes) ==
    IF bytes[1] < 128 THEN Unsigned(bytes, Len(bytes))
    ELSE Pow(256, Len(bytes)) - Unsigned(bytes, Len(bytes))

LowerHex == <<"0", "1", "2", "3", "4", "5", "6", "7",
              "8", "9", "a", "b", "c", "d", "e", "f">>

IsLowerHex(c) == \E k \in 1..16 : LowerHex[k] = c

DigitValue(c) == (CHOOSE k \in 1..16 : LowerHex[k] = c) - 1

\* The number a string of hexadecimal digits denotes (0 for no digits).
RECURSIVE HexValue(_, _)
HexValue(s, n) ==
    IF n = 0 THEN 0 ELSE HexValue(s, n - 1) * 16 + DigitValue(s[n])

HasMinus(s) == Len(s) > 0 /\ s[1] = "-"

\* The string after its minus sign, if it has one.
HexPart(s) == IF HasMinus(s) THEN SubSeq(s, 2, Len(s)) ELSE s

\* The magnitude m written in exactly w lowercase hexadecimal digits.
FullHex(m, w) == [k \in 1..w |-> LowerHex[((m \div Pow(16, w - k)) % 16) + 1]]

----------------------------------------------------------------------------
(* C1: sha1's result starts with '-' exactly when the first digest byte is *)
(* >= 0x80, and its hexadecimal part denotes |d|: the digest value when    *)
(* the first byte is < 0x80, 2^width minus the unsigned value otherwise.   *)
C1_SignAndMagnitude ==
    pc = "done" =>
        /\ HasMinus(ret) <=> digest[1] >= 128
        /\ \A i \in 1..Len(HexPart(ret)) : IsLowerHex(HexPart(ret)[i])
        /\ HexValue(HexPart(ret), Len(HexPart(ret))) = Magnitude(digest)

\* A negative digest whose last byte is 0x00: the add-one step carries.
C1_Witness ==
    /\ pc = "done"
    /\ digest[1] >= 128
    /\ digest[DigestLen] = 0
    /\ HasMinus(ret)

(* C10: the hexadecimal part is the lowercase rendering of the magnitude   *)
(* (two digits per byte) with its leading '0' characters removed and       *)
(* nothing else: it never begins with '0', later zeros are kept, and it    *)
(* has at most 2 characters per digest byte.                               *)
C10_LeadingZerosOnly ==
    pc = "done" =>
        LET hex == HexPart(ret)
            w == 2 * Len(digest)
            full == FullHex(Magnitude(digest), w)
        IN  /\ Len(hex) <= w
            /\ hex # <<>> => hex[1] # "0"
            /\ \E k \in 0..w :
                  /\ \A i \in 1..k : full[i] = "0"
                  /\ hex = SubSeq(full, k + 1, w)

\* A result shorter than the full width that keeps a zero after its first digit.
C10_Witness ==
    /\ pc = "done"
    /\ Len(HexPart(ret)) \in 1..(2 * DigestLen - 1)
    /\ \E i \in 2..Len(HexPart(ret)) : HexPart(ret)[i] = "0"

----------------------------------------------------------------------------
(* post_sha1: yggdrasil.rs 154-163, and the hash call of sha1 (line 167) *)

\* hash::hash(MessageDigest::sha1(), data): SHA-1 itself is the library's.
\* The model keeps what the callers rely on: a fixed function of the whole
\* buffer, sensitive to every byte and to its position, DigestLen bytes wide.
RECURSIVE WeightedSum(_, _, _)
WeightedSum(data, n, i) ==
    IF n = 0 THEN 0
    ELSE WeightedSum(data, n - 1, i) + data[n] * (n + 2 * i + 1)

hash_sha1(data) ==
    [i \in 1..DigestLen |->
        (WeightedSum(data, Len(data), i) + 89 * i + 57 * Len(data)) % 256]

\* fn sha1(data: &[u8]) -> String
sha1(data) == sha1_render(hash_sha1(data))

\* The mutant of post_sha1: the public key is hashed before the secret.
post_sha1_KeyFirst(server_id, shared_secret, server_public_key) ==
    sha1(server_id \o server_public_key \o shared_secret)

\* The mutant of post_sha1: a zero byte separates the three components.
post_sha1_Separated(server_id, shared_secret, server_public_key) ==
    sha1(server_id \o <<0>> \o shared_secret \o <<0>> \o server_public_key)

\* tmp = server_id bytes; tmp.extend(shared_secret);
\* tmp.extend(server_public_key); sha1(&tmp)
post_sha1(server_id, shared_secret, server_public_key) ==
    sha1(server_id \o shared_secret \o server_public_key)

\* The magnitude m in hexadecimal with no leading zeros (no digit for 0).
RECURSIVE ToHex(_)
ToHex(m) ==
    IF m = 0 THEN <<>> ELSE ToHex(m \div 16) \o <<LowerHex[(m % 16) + 1]>>

\* utils::post_sha1, which mojang.rs calls and src/ does not hold: the
\* digest of spec 4.1 (concatenate, hash, read as a signed big-endian
\* integer, write the magnitude in hexadecimal without leading zeros,
\* nothing at all for zero as the spec notes of the source, '-' in front
\* of a negative value).
utils_post_sha1(server_id, shared_secret, server_public_key) ==
    LET d == hash_sha1(server_id \o shared_secret \o server_public_key)
    IN  (IF d[1] >= 128 THEN <<"-">> ELSE <<>>) \o ToHex(Magnitude(d))

----------------------------------------------------------------------------
(* The environment of Spec: what callers pass and what the network and     *)
(* the crypto library answer                                               *)

\* HTTP status codes: a success, a redirect, a client error.
Statuses == {200, 301, 403}

ServerIds == {<<>>, <<65>>}
SharedSecrets == {<<1, 2>>, <<200>>}
PublicKeys == {<<48, 129>>, <<7>>}
Triples == ServerIds \X SharedSecrets \X PublicKeys

AccessTokens == {"a1", "zz"}
Uuids == {"u1"}
Usernames == {"n1", "n2"}

\* JSON values (rustc_serialize::json::Json): a string, a number, an object
\* with its members, and what find gives for a key that is not there.
JStr(x) == [t |-> "str", v |-> x, f |-> <<>>]
JNum == [t |-> "num", v |-> "", f |-> <<>>]
JObj(members) == [t |-> "obj", v |-> "", f |-> members]
JNone == [t |-> "none", v |-> "", f |-> <<>>]

\* The string Mojang puts under each key of the authenticate response.
FieldString(key) ==
    CASE key = "accessToken" -> "a1"
      [] key = "clientToken" -> "c1"
      [] key = "id" -> "u1"
      [] key = "name" -> "n1"

\* Objects over `keys`, each key absent, a number or its string.
StringObjects(keys) ==
    { JObj([k \in {x \in keys : c[x] # "absent"} |->
                IF c[k] = "num" THEN JNum ELSE JStr(FieldString(k))]) :
      c \in [keys -> {"absent", "num", "str"}] }

\* The same object with one more member.
WithMember(obj, key, value) ==
    JObj([k \in DOMAIN obj.f \cup {key} |-> IF k = key THEN value ELSE obj.f[k]])

AuthJson ==
    {JNum}
    \cup StringObjects({"accessToken", "clientToken"})
    \cup { WithMember(o, "selectedProfile", p) :
             o \in StringObjects({"accessToken", "clientToken"}),
             p \in {JNum} \cup StringObjects({"id", "name"}) }

\* What the authentication endpoint can answer: no answer at all, a status
\* that is not a success, a body that cannot be read, text that is not
\* JSON, or JSON.
AuthResponses ==
    {[send |-> "err", status |-> 0, read |-> "err", json |-> JNone]}
    \cup {[send |-> "ok", status |-> s, read |-> "ok", json |-> JNone] :
            s \in {x \in Statuses : x \notin 200..299}}
    \cup {[send |-> "ok", status |-> 200, read |-> r, json |-> JNone] :
            r \in {"err", "notjson"}}
    \cup {[send |-> "ok", status |-> 200, read |-> "ok", json |-> j] :
            j \in AuthJson}

----------------------------------------------------------------------------
(* authenticate: yggdrasil.rs 39-95 *)

\* The mutant of is_success: every code below 400 counts as a success.
is_success_Below400(status) == status < 400

\* res.status().is_success() of reqwest: the 2xx codes.
is_success(status) == status \in 200..299

\* Json::find: the member under `key` of an object, None otherwise.
find(data, key) ==
    IF data.t = "obj" /\ key \in DOMAIN data.f THEN data.f[key] ELSE JNone

Ok(val) == [ok |-> TRUE, val |-> val, err |-> ""]
Err(msg) == [ok |-> FALSE, val |-> <<>>, err |-> msg]

\* Lines 52-94: the io::Result authenticate returns for a response.
authenticate_result(resp) ==
    IF resp.send = "err" THEN Err("error sending http request")
    ELSE IF ~is_success(resp.status) THEN Err("non-200 response")
    ELSE IF resp.read = "err" THEN Err("read_to_string")
    ELSE IF resp.read = "notjson" THEN Err("error parsing json")
    ELSE LET data == resp.json
             accessToken == find(data, "accessToken")
             clientToken == find(data, "accessToken")
             profile == find(data, "selectedProfile")
             uuid == find(profile, "id")
             username == find(profile, "name")
         IN  IF accessToken.t # "str" THEN Err("did not contain accessToken")
             ELSE IF clientToken.t # "str" THEN Err("did not contain clientToken")
             ELSE IF profile.t = "none" THEN Err("did not contain selectedProfile")
             ELSE IF uuid.t # "str" THEN Err("did not contain uuid")
             ELSE IF username.t # "str" THEN Err("did not contain name")
             ELSE Ok(<<accessToken.v, clientToken.v, username.v, uuid.v>>)

\* The request a call leaves behind for the next call to see as `prev`.
ReqOps == {"session_join", "SessionJoin_new", "SessionHasJoined_new"}

Remember ==
    prev' = IF last.op \in ReqOps
            THEN [kind |-> last.op, triple |-> last.triple,
                  serverId |-> last.req.serverId]
            ELSE prev

authenticate ==
    \E resp \in AuthResponses :
        LET res == authenticate_result(resp)
        IN  /\ last' = [op |-> "authenticate", resp |-> resp, res |-> res]
            /\ auth' = IF res.ok
                       THEN [state |-> "Authenticated", tokens |-> res.val]
                       ELSE [state |-> "AuthFailed", tokens |-> <<>>]
            /\ Remember
            /\ UNCHANGED <<pc, digest, ret>>

----------------------------------------------------------------------------
(* session_join: yggdrasil.rs 99-130 *)

\* What the session server can answer to the join POST: no answer, or a status.
JoinResponses ==
    {[send |-> "err", status |-> 0]}
    \cup {[send |-> "ok", status |-> s] : s \in Statuses}

\* The mutant of join_payload: the token and the uuid change places.
join_payload_Swapped(access_token, uuid, hash) ==
    [accessToken |-> uuid, selectedProfile |-> access_token, serverId |-> hash]

\* format!("{{\"accessToken\":\"{}\",\"selectedProfile\":\"{}\",\"serverId\":\"{}\"}}", ...)
join_payload(access_token, uuid, hash) ==
    [accessToken |-> access_token, selectedProfile |-> uuid, serverId |-> hash]

\* Lines 119-129: the io::Result session_join returns for a response.
session_join_result(resp) ==
    IF resp.send = "err" THEN Err("error sending http request")
    ELSE IF ~is_success(resp.status) THEN Err("non-200 response")
    ELSE Ok(<<>>)

\* One call of session_join: the hash and the payload are built first, then
\* the request goes out. `authAt` is the observer's record of the session
\* when the call was made.
session_join ==
    \E access_token \in AccessTokens, uuid \in Uuids, t \in Triples,
       resp \in JoinResponses :
        LET hash == post_sha1(t[1], t[2], t[3])
            payload == join_payload(access_token, uuid, hash)
        IN  /\ last' = [op |-> "session_join",
                        args |-> [access_token |-> access_token, uuid |-> uuid],
                        triple |-> t,
                        req |-> payload,
                        resp |-> resp,
                        authAt |-> auth,
                        res |-> session_join_result(resp)]
            /\ Remember
            /\ UNCHANGED <<pc, digest, ret, auth>>

----------------------------------------------------------------------------
(* get_request, post_request: mojang.rs 467-506 *)

\* The body of a response as the helpers see it: nothing, bytes that are
\* not UTF-8, text that does not deserialize, or a profile.
Body(kind, name) == [kind |-> kind, name |-> name]

\* fail_on_error(true): curl fails the transfer on a status of 400 or more;
\* String::from_utf8 fails on bytes that are not UTF-8.
get_request(resp) ==
    IF resp.send = "err" THEN Err("transfer")
    ELSE IF resp.status >= 400 THEN Err("http error")
    ELSE IF resp.body.kind = "badutf8" THEN Err("from_utf8")
    ELSE Ok(resp.body)

post_request(resp) ==
    IF resp.send = "err" THEN Err("transfer")
    ELSE IF resp.status >= 400 THEN Err("http error")
    ELSE IF resp.body.kind = "badutf8" THEN Err("from_utf8")
    ELSE Ok(resp.body)

----------------------------------------------------------------------------
(* SessionJoin: mojang.rs 406-436 *)

SessionJoin_new ==
    \E access_token \in AccessTokens, uuid \in Uuids, t \in Triples :
        /\ last' = [op |-> "SessionJoin_new",
                    triple |-> t,
                    req |-> [accessToken |-> access_token,
                             selectedProfile |-> uuid,
                             serverId |-> utils_post_sha1(t[1], t[2], t[3])]]
        /\ Remember
        /\ UNCHANGED <<pc, digest, ret, auth>>

PostResponses ==
    {[send |-> "err", status |-> 0, body |-> Body("empty", "")]}
    \cup {[send |-> "ok", status |-> s, body |-> Body(k, "")] :
            s \in Statuses, k \in {"empty", "badutf8"}}

\* let _ = post_request(...)?; Ok(())
SessionJoin_perform_result(resp) ==
    IF post_request(resp).ok THEN Ok(<<>>) ELSE post_request(resp)

\* perform on the SessionJoin that new built (or that an earlier perform used).
SessionJoin_perform ==
    /\ last.op \in {"SessionJoin_new", "SessionJoin_perform"}
    /\ \E resp \in PostResponses :
        last' = [op |-> "SessionJoin_perform",
                 triple |-> last.triple,
                 req |-> last.req,
                 resp |-> resp,
                 res |-> SessionJoin_perform_result(resp)]
    /\ Remember
    /\ UNCHANGED <<pc, digest, ret, auth>>

----------------------------------------------------------------------------
(* SessionHasJoined: mojang.rs 440-463 *)

SessionHasJoined_new ==
    \E username \in Usernames, t \in Triples :
        /\ last' = [op |-> "SessionHasJoined_new",
                    triple |-> t,
                    req |-> [username |-> username,
                             serverId |-> utils_post_sha1(t[1], t[2], t[3])]]
        /\ Remember
        /\ UNCHANGED <<pc, digest, ret, auth>>

HasJoinedBodies ==
    {Body(k, "") : k \in {"empty", "badutf8", "garbage"}}
    \cup {Body("profile", n) : n \in Usernames}

HasJoinedResponses ==
    {[send |-> "err", status |-> 0, body |-> Body("empty", "")]}
    \cup {[send |-> "ok", status |-> s, body |-> Body("empty", "")] :
            s \in {x \in Statuses : x >= 400}}
    \cup {[send |-> "ok", status |-> s, body |-> b] :
            s \in {x \in Statuses : x < 400}, b \in HasJoinedBodies}

\* serde_json::from_str(&res): a SessionHasJoinedResponse when the text is
\* a profile, an error for empty text and for anything else.
from_str(body) ==
    IF body.kind = "profile" THEN Ok([name |-> body.name]) ELSE Err("serde_json")

\* let res = get_request(&url)?; Ok(serde_json::from_str(&res)?)
\* self (username, serverId) only goes into the url.
SessionHasJoined_perform_result(self, resp) ==
    IF ~get_request(resp).ok THEN get_request(resp)
    ELSE from_str(get_request(resp).val)

SessionHasJoined_perform ==
    /\ last.op \in {"SessionHasJoined_new", "SessionHasJoined_perform"}
    /\ \E resp \in HasJoinedResponses :
        last' = [op |-> "SessionHasJoined_perform",
                 triple |-> last.triple,
                 req |-> last.req,
                 resp |-> resp,
                 res |-> SessionHasJoined_perform_result(last.req, resp)]
    /\ Remember
    /\ UNCHANGED <<pc, digest, ret, auth>>

----------------------------------------------------------------------------
(* rsa_encrypt: yggdrasil.rs 136-152 *)

\* vec![0; 128]
CiphertextLen == 128

\* Ok(128) => ()
ExpectedLen == 128

\* What Rsa::public_key_from_der and public_encrypt can answer: the key
\* does not parse; or it parses and the primitive fails or reports the
\* number of bytes it wrote.
RsaOutcomes ==
    {[key |-> "err", enc |-> [ok |-> FALSE, len |-> 0]]}
    \cup {[key |-> "ok", enc |-> [ok |-> FALSE, len |-> 0]]}
    \cup {[key |-> "ok", enc |-> [ok |-> TRUE, len |-> n]] :
            n \in {0, 64, 127, 128, 129}}

\* The buffer after public_encrypt wrote len bytes into it (1: written).
Written(len) == [i \in 1..CiphertextLen |-> IF i <= len THEN 1 ELSE 0]

\* The mutant of rsa_encrypt_result: any Ok(_) of the primitive is accepted.
rsa_encrypt_result_AnyLen(out) ==
    IF out.key = "err" THEN Err("error trying to read public key")
    ELSE IF out.enc.ok THEN Ok(Written(out.enc.len))
    ELSE Err("error encrypting data")

rsa_encrypt_result(out) ==
    IF out.key = "err" THEN Err("error trying to read public key")
    ELSE IF out.enc.ok /\ out.enc.len = ExpectedLen THEN Ok(Written(out.enc.len))
    ELSE Err("error encrypting data")

rsa_encrypt ==
    \E out \in RsaOutcomes :
        /\ last' = [op |-> "rsa_encrypt",
                    out |-> out,
                    encrypt_called |-> out.key = "ok",
                    res |-> rsa_encrypt_result(out)]
        /\ Remember
        /\ UNCHANGED <<pc, digest, ret, auth>>

----------------------------------------------------------------------------
(* create_shared_secret: yggdrasil.rs 25-34 *)

\* let mut ret = [0; 16];
SecretLen == 16

\* What rand::rand_bytes can answer: an error, or the buffer filled.
RandOutcomes ==
    {[ok |-> FALSE, bytes |-> <<>>]}
    \cup {[ok |-> TRUE, bytes |-> [i \in 1..SecretLen |-> (b + i * step) % 256]] :
            b \in {0, 77}, step \in {0, 3}}

\* The mutant of create_shared_secret_result: the error is ignored and the
\* zeroed buffer returned.
create_shared_secret_result_Ignore(rnd) ==
    IF rnd.ok THEN [kind |-> "ok", val |-> rnd.bytes]
    ELSE [kind |-> "ok", val |-> [i \in 1..SecretLen |-> 0]]

\* Ok(()) => (), Err(_) => panic!(...); ret
create_shared_secret_result(rnd) ==
    IF rnd.ok THEN [kind |-> "ok", val |-> rnd.bytes]
    ELSE [kind |-> "panic", val |-> <<>>]

create_shared_secret ==
    \E rnd \in RandOutcomes :
        /\ last' = [op |-> "create_shared_secret",
                    rnd |-> rnd,
                    res |-> create_shared_secret_result(rnd)]
        /\ Remember
        /\ UNCHANGED <<pc, digest, ret, auth>>

----------------------------------------------------------------------------
(* Spec *)

Init ==
    /\ pc = "calls"
    /\ digest = <<>>
    /\ ret = <<>>
    /\ auth = NoAuth
    /\ prev = NoReq
    /\ last = NoCall

Next ==
    \/ authenticate
    \/ session_join
    \/ SessionJoin_new
    \/ SessionJoin_perform
    \/ SessionHasJoined_new
    \/ SessionHasJoined_perform
    \/ rsa_encrypt
    \/ create_shared_secret

Spec == Init /\ [][Next]_vars

----------------------------------------------------------------------------
(* C2: the serverId of the client's join request (session_join's payload,  *)
(* SessionJoin::new) is digest(serverId, sharedSecret, serverPublicKey),   *)
(* and any two requests built from the same three inputs, the server's     *)
(* has-joined query among them, carry the identical string.                *)
C2_SameInputsSameServerId ==
    last.op \in ReqOps =>
        /\ last.req.serverId
             = utils_post_sha1(last.triple[1], last.triple[2], last.triple[3])
        /\ (prev.kind \in ReqOps /\ prev.triple = last.triple)
             => last.req.serverId = prev.serverId

\* A has-joined query built right after a session_join for the same triple,
\* the digest being negative.
C2_Witness ==
    /\ last.op = "SessionHasJoined_new"
    /\ prev.kind = "session_join"
    /\ prev.triple = last.triple
    /\ HasMinus(prev.serverId)

(* C3: SessionHasJoined::perform yields a profile only when the HTTP       *)
(* request succeeded and the response carries profile data matching the    *)
(* claimed username; anything else ends in an error.                       *)
C3_VerifiedOnlyOnMatch ==
    (last.op = "SessionHasJoined_perform" /\ last.res.ok) =>
        /\ get_request(last.resp).ok
        /\ last.resp.body.kind = "profile"
        /\ last.resp.body.name = last.req.username

(* C4: when authenticate succeeds its tuple is (accessToken, clientToken,  *)
(* username, uuid), each the string the response holds under accessToken,  *)
(* clientToken, selectedProfile.name and selectedProfile.id.               *)
C4_TupleFromFields ==
    (last.op = "authenticate" /\ last.res.ok) =>
        LET j == last.resp.json
            p == find(j, "selectedProfile")
            Is(value, x) == value.t = "str" /\ value.v = x
        IN  /\ Is(find(j, "accessToken"), last.res.val[1])
            /\ Is(find(j, "clientToken"), last.res.val[2])
            /\ Is(find(p, "name"), last.res.val[3])
            /\ Is(find(p, "id"), last.res.val[4])

(* C5: authenticate returns an error whenever the request fails, the       *)
(* status is not a success, the body is not valid JSON, or accessToken,    *)
(* clientToken, selectedProfile, selectedProfile.id or                     *)
(* selectedProfile.name is missing or (the four strings) not a string.     *)
C5_ErrorOnBadResponse ==
    last.op = "authenticate" =>
        LET r == last.resp
            p == find(r.json, "selectedProfile")
            bad == \/ r.send = "err"
                   \/ r.status \notin 200..299
                   \/ r.read # "ok"
                   \/ find(r.json, "accessToken").t # "str"
                   \/ find(r.json, "clientToken").t # "str"
                   \/ p.t = "none"
                   \/ find(p, "id").t # "str"
                   \/ find(p, "name").t # "str"
        IN  bad => ~last.res.ok

C7_ErrorOrFullCiphertext ==
    last.op = "rsa_encrypt" =>
        /\ last.res.ok =>
              /\ Len(last.res.val) = 128
              /\ \A i \in 1..128 : last.res.val[i] = 1
              /\ last.out.key = "ok"
              /\ last.out.enc.ok
              /\ last.out.enc.len = 128
        /\ ~last.res.ok => last.res.val = <<>>
        /\ last.out.key = "err" => (~last.res.ok /\ ~last.encrypt_called)
        /\ (~last.out.enc.ok \/ last.out.enc.len # 128) => ~last.res.ok

\* The primitive wrote 127 bytes and rsa_encrypt returned an error.
C7_Witness ==
    /\ last.op = "rsa_encrypt"
    /\ last.out.key = "ok"
    /\ last.out.enc.ok
    /\ last.out.enc.len = 127
    /\ ~last.res.ok

(* C8, as claimed: create_shared_secret returns exactly 16 bytes on every  *)
(* successful call, and when the generator fails the caller gets an error  *)
(* outcome and no secret.                                                  *)
C8_ErrorOutcome ==
    last.op = "create_shared_secret" =>
        /\ last.res.kind = "ok" => Len(last.res.val) = 16
        /\ ~last.rnd.ok => (last.res.kind = "err" /\ last.res.val = <<>>)

(* C8, amended: create_shared_secret returns exactly 16 bytes, those the   *)
(* generator supplied, on every successful call, and when the generator    *)
(* fails it panics: the call does not return, and no secret comes back.    *)
C8_PanicOnRandError ==
    last.op = "create_shared_secret" =>
        /\ last.res.kind = "ok" =>
              /\ last.rnd.ok
              /\ Len(last.res.val) = 16
              /\ last.res.val = last.rnd.bytes
        /\ ~last.rnd.ok => (last.res.kind = "panic" /\ last.res.val = <<>>)

\* The generator failed and the call panicked.
C8_Witness ==
    /\ last.op = "create_shared_secret"
    /\ ~last.rnd.ok
    /\ last.res.kind = "panic"

(* C9, as claimed: the join request is sent only after an authenticate     *)
(* call has completed successfully, with the accessToken and uuid that     *)
(* authenticate returned; never from Unauthenticated or after a failed     *)
(* authenticate.                                                           *)
C9_JoinOnlyAfterAuthenticate ==
    last.op = "session_join" =>
        /\ last.authAt.state = "Authenticated"
        /\ last.req.accessToken = last.authAt.tokens[1]
        /\ last.req.selectedProfile = last.authAt.tokens[4]

(* C9, amended: session_join keeps no session state and does not check     *)
(* that authenticate succeeded: in every state, Unauthenticated and after  *)
(* a failed authenticate included, it sends the join request with exactly  *)
(* the access_token and uuid its caller passes, and its result depends on  *)
(* the answer alone. Calling authenticate first is left to the caller.     *)
C9_JoinCarriesCallerArguments ==
    last.op = "session_join" =>
        /\ last.authAt.state \in {"Unauthenticated", "AuthFailed", "Authenticated"}
        /\ last.req.accessToken = last.args.access_token
        /\ last.req.selectedProfile = last.args.uuid
        /\ last.res = session_join_result(last.resp)

\* A join sent, and accepted, after a failed authenticate.
C9_Witness ==
    /\ last.op = "session_join"
    /\ last.authAt.state = "AuthFailed"
    /\ last.res.ok

----------------------------------------------------------------------------
(* C11: for the digest whose bytes are all 0x00, sha1 returns the single   *)
(* character "0".                                                          *)
C11_ZeroIsSingleZero ==
    (pc = "done" /\ \A i \in 1..Len(digest) : digest[i] = 0) => ret = <<"0">>

(* C13: in the negative branch the add-one step never carries out of the   *)
(* first byte: the inverted first byte is <= 0x7f, some byte stops the     *)
(* increment loop, the magnitude is not zero, and the result has at least  *)
(* one hexadecimal digit after its minus sign.                             *)
C13_NegativeNeverBareMinus ==
    (pc = "done" /\ digest[1] >= 128) =>
        LET inv == InvertBytes(digest)
            n == Len(digest)
            mag == AddOne(inv, n)
        IN  /\ inv[1] <= 127
            /\ \E i \in 1..n : inv[i] # 255
            /\ Unsigned(mag, n) = Unsigned(inv, n) + 1
            /\ \E i \in 1..n : mag[i] # 0
            /\ HasMinus(ret)
            /\ Len(ret) >= 2
            /\ ret[2] # "0"

\* The most negative digest, 0x80 00..00: the carry runs up to the first
\* byte and stops there.
C13_Witness ==
    /\ pc = "done"
    /\ digest[1] = 128
    /\ \A i \in 2..DigestLen : digest[i] = 0
    /\ HasMinus(ret)
    /\ Len(ret) = 1 + 2 * DigestLen

----------------------------------------------------------------------------
(* SpecPostSha1: post_sha1 on every triple of small components, the empty  *)
(* ones included                                                           *)

PostServerIds == {<<>>, <<65>>, <<65, 66>>, <<0>>}
PostSecrets == {<<>>, <<1, 2>>, <<200>>, <<66>>}
PostKeys == {<<>>, <<48, 129>>, <<7>>, <<2, 1>>}

InitPostSha1 ==
    /\ pc = "args"
    /\ digest = <<>>
    /\ ret = <<>>
    /\ auth = NoAuth
    /\ prev = NoReq
    /\ last \in {[op |-> "post_sha1", triple |-> t] :
                    t \in PostServerIds \X PostSecrets \X PostKeys}

\* One call of post_sha1 on the arguments in `last`.
PostSha1 ==
    /\ pc = "args"
    /\ pc' = "hashed"
    /\ ret' = post_sha1(last.triple[1], last.triple[2], last.triple[3])
    /\ UNCHANGED <<digest, auth, prev, last>>

NextPostSha1 == PostSha1

SpecPostSha1 == InitPostSha1 /\ [][NextPostSha1]_vars

(* C12: post_sha1 is sha1 of one buffer: the bytes of serverId, then all   *)
(* bytes of sharedSecret, then all bytes of serverPublicKey, nothing       *)
(* between or before them, for every triple, empty components included.    *)
C12_HashOfConcatenation ==
    pc = "hashed" =>
        LET a == last.triple[1]
            b == last.triple[2]
            c == last.triple[3]
            buffer == [i \in 1..(Len(a) + Len(b) + Len(c)) |->
                          IF i <= Len(a) THEN a[i]
                          ELSE IF i <= Len(a) + Len(b) THEN b[i - Len(a)]
                          ELSE c[i - Len(a) - Len(b)]]
        IN  ret = sha1(buffer)

\* An empty serverId and an empty public key around a two-byte secret.
C12_Witness ==
    /\ pc = "hashed"
    /\ last.triple = <<<<>>, <<1, 2>>, <<>>>>
    /\ ret = sha1(<<1, 2>>)

====
